---- MODULE Spec2Model ----
(***************************************************************************)
(* Model of the dependency-injection component core of patina:            *)
(*   sdk/patina/src/component/params.rs          (Param implementations)  *)
(*   sdk/patina/src/component/struct_component.rs (StructComponent)       *)
(*   sdk/patina/src/component/service.rs          (Service<T>)            *)
(* The operations of Storage and MetaData (storage.rs, metadata.rs) are   *)
(* modelled from the specification and from the calls params.rs makes on  *)
(* them.                                                                  *)
(***************************************************************************)
EXTENDS Integers, Sequences, FiniteSets, TLC

VARIABLES
    storage,            \* the Storage: configs, services, deferred queue
    components,         \* one StructComponent per slot
    panic,              \* the panic that ended the program, or NoPanic
    debug_assertions,   \* cfg!(debug_assertions) of the build
    applied,            \* commands executed by the step just taken, in order
    requested,          \* commands callables asked to queue since the last apply
    swept,              \* a lock sweep of the scheduler has locked a slot
    handles,            \* the Service<T> handles a program holds outside storage
    call,               \* the library call just made: function, arguments, result
    paths,              \* the device paths a and b a caller holds, as bytes in memory
    walker              \* a DevicePathWalker over path a, with what it has returned

dpVars == <<paths, walker>>
libVars == <<handles, call, paths, walker>>
mainVars == <<storage, components, debug_assertions, applied, requested, swept>>
vars == <<storage, components, panic, debug_assertions, applied, requested, swept,
          handles, call, paths, walker>>

(* ------------------------------ bounds --------------------------------- *)
\* longest deferred queue explored
MaxQueue == 2
\* most invocations of one callable explored
MaxInvocations == 2

\* most nodes of a device path before its end-of-entire-path node
MaxNodes == 2
\* most calls of next explored after a walker has returned None
MaxNone == 2
\* bits of the unsigned integer type the alignment functions are explored at
Width == 4

ConfigTypes == {"u32", "i32"}
ServiceTypes == {"TestService"}
\* config values are opaque data: the default and one other value
Values == {0, 1}
DefaultValue == CHOOSE v \in Values : \A w \in Values : v <= w
Slots == {1, 2}

\* the names of the Service handles and the leaked service objects explored
Handles == {"service1", "service2", "service3"}
ServiceObjs == {41, 42}

(* ------------------------- parameter kinds ----------------------------- *)
\* Every Param type is a record [kind, t, sub]; sub holds the wrapped
\* parameter of an Option and the members of a tuple.
Config(t) == [kind |-> "Config", t |-> t, sub |-> <<>>]
ConfigMut(t) == [kind |-> "ConfigMut", t |-> t, sub |-> <<>>]
Service(s) == [kind |-> "Service", t |-> s, sub |-> <<>>]
Commands == [kind |-> "Commands", t |-> "-", sub |-> <<>>]
Option(p) == [kind |-> "Option", t |-> "-", sub |-> <<p>>]
Tuple(ps) == [kind |-> "Tuple", t |-> "-", sub |-> ps]
\* the whole-storage parameters &Storage and &mut Storage
Storage_ref == [kind |-> "&Storage", t |-> "-", sub |-> <<>>]
Storage_mut == [kind |-> "&mut Storage", t |-> "-", sub |-> <<>>]

\* core::any::type_name::<P>(): the kind with its type arguments spelled out
RECURSIVE type_name(_)
RECURSIVE type_names(_)
type_names(ps) ==
    IF ps = <<>> THEN ""
    ELSE IF Len(ps) = 1 THEN type_name(ps[1])
    ELSE type_name(Head(ps)) \o ", " \o type_names(Tail(ps))
type_name(p) ==
    CASE p.kind \in {"Config", "ConfigMut", "Service"} -> p.kind \o "<" \o p.t \o ">"
      [] p.kind \in {"Commands", "&Storage", "&mut Storage"} -> p.kind
      [] p.kind = "Option" -> "Option<" \o type_name(p.sub[1]) \o ">"
      [] p.kind = "Tuple" -> "(" \o type_names(p.sub) \o ")"

\* A panic: its kind, the parameter kind it names (<<>> if none), the
\* earlier access it conflicts with, and the component it names.
NoPanic == [kind |-> "none", param |-> <<>>, previous |-> "-", component |-> "-"]
Panic(k, p, prev, c) == [kind |-> k, param |-> p, previous |-> prev, component |-> c]

(* ------------------------------ Storage -------------------------------- *)
\* configs: one slot per registered type, the id is the index;
\* service_ids: the registered interfaces, the id is the index;
\* services: ids of the published services; deferred: the command queue.
Storage_new ==
    [configs |-> <<>>, service_ids |-> <<>>, services |-> {}, deferred |-> <<>>]

ConfigIdOf(st, t) ==
    IF \E i \in 1..Len(st.configs) : st.configs[i].type = t
    THEN CHOOSE i \in 1..Len(st.configs) : st.configs[i].type = t
    ELSE 0

ServiceIdOf(st, s) ==
    IF \E i \in 1..Len(st.service_ids) : st.service_ids[i] = s
    THEN CHOOSE i \in 1..Len(st.service_ids) : st.service_ids[i] = s
    ELSE 0

\* ConfigRaw::new(locked, value)
ConfigRaw_new(t, locked, v) == [type |-> t, locked |-> locked, value |-> v]

\* Storage::add_config: the slot of the type holds the value, locked
Storage_add_config(st, t, v) ==
    IF ConfigIdOf(st, t) = 0
    THEN [st EXCEPT !.configs = Append(@, ConfigRaw_new(t, TRUE, v))]
    ELSE [st EXCEPT !.configs[ConfigIdOf(st, t)] = ConfigRaw_new(t, TRUE, v)]

\* Storage::add_config_default_if_not_present: first reference creates the
\* slot with the default value, locked; returns the storage and the id
Storage_add_config_default_if_not_present(st, t) ==
    IF ConfigIdOf(st, t) = 0
    THEN [st |-> [st EXCEPT !.configs = Append(@, ConfigRaw_new(t, TRUE, DefaultValue))],
          id |-> Len(st.configs) + 1]
    ELSE [st |-> st, id |-> ConfigIdOf(st, t)]

Storage_unlock_config(st, id) == [st EXCEPT !.configs[id].locked = FALSE]

Storage_lock_configs(st) ==
    [st EXCEPT !.configs = [i \in 1..Len(st.configs) |-> [st.configs[i] EXCEPT !.locked = TRUE]]]

Storage_get_raw_config(st, id) == st.configs[id]

\* Storage::register_service: a stable id for the interface
Storage_register_service(st, s) ==
    IF ServiceIdOf(st, s) = 0
    THEN [st |-> [st EXCEPT !.service_ids = Append(@, s)], id |-> Len(st.service_ids) + 1]
    ELSE [st |-> st, id |-> ServiceIdOf(st, s)]

\* IntoService::register_service: register the interface, then publish
Storage_add_service(st, s) ==
    LET r == Storage_register_service(st, s)
    IN [r.st EXCEPT !.services = @ \cup {r.id}]

\* Storage::get_raw_service(id).is_some()
Storage_has_service(st, id) == id \in st.services

\* Deferred::add_command
Deferred_add_command(st, cmd) == [st EXCEPT !.deferred = Append(@, cmd)]

AddConfigCmd(t, v) == [op |-> "add_config", t |-> t, v |-> v]
AddServiceCmd(s) == [op |-> "add_service", t |-> s, v |-> 0]

\* one queued closure, run against the storage
RunCommand(st, cmd) ==
    IF cmd.op = "add_config" THEN Storage_add_config(st, cmd.t, cmd.v)
    ELSE Storage_add_service(st, cmd.t)

\* Deferred::apply: the closures from first to last; log lists the closures
\* in the order they ran
RECURSIVE Deferred_apply(_, _, _)
Deferred_apply(st, q, log) ==
    IF q = <<>> THEN [st |-> st, log |-> log]
    ELSE Deferred_apply(RunCommand(st, Head(q)), Tail(q), Append(log, Head(q)))

\* Storage::apply_deferred: every queued closure in enqueue order, then an
\* empty queue
Storage_apply_deferred(st) ==
    LET r == Deferred_apply(st, st.deferred, <<>>)
    IN [st |-> [r.st EXCEPT !.deferred = <<>>], log |-> r.log]

(* ------------------------------ MetaData ------------------------------- *)
MetaData_new(name) ==
    [name |-> name, reads |-> {}, writes |-> {}, reads_all |-> FALSE,
     writes_all |-> FALSE, deferred |-> FALSE, failed_param |-> <<>>]

has_config_read(meta, id) == id \in meta.reads
has_config_write(meta, id) == id \in meta.writes
has_reads_all_configs(meta) == meta.reads_all
has_writes_all_configs(meta) == meta.writes_all
has_deferred(meta) == meta.deferred
add_config_read(meta, id) == [meta EXCEPT !.reads = @ \cup {id}]
add_config_write(meta, id) == [meta EXCEPT !.writes = @ \cup {id}]
set_deferred(meta) == [meta EXCEPT !.deferred = TRUE]
has_any_config_read(meta) == meta.reads # {}
has_any_config_write(meta) == meta.writes # {}
set_reads_all_configs(meta) == [meta EXCEPT !.reads_all = TRUE]
set_writes_all_configs(meta) == [meta EXCEPT !.writes_all = TRUE]
\* failed_param is an Option: <<>> is None, <<n>> is Some(n)
set_failed_param(meta, name) == [meta EXCEPT !.failed_param = <<name>>]

(* ----------------------- Param::init_state ----------------------------- *)
\* debug_assert!(cond) panics only in a build with debug assertions
DebugAssertFails(cond) == debug_assertions /\ ~cond

NoState == [id |-> 0, sub |-> <<>>]
InitResult(st, meta, pn, state) == [st |-> st, meta |-> meta, panic |-> pn, state |-> state]

\* mutant: Config registers its read without looking for an earlier write
Config_init_state_unchecked(st, meta, t) ==
    LET r == Storage_add_config_default_if_not_present(st, t)
    IN InitResult(r.st, add_config_read(meta, r.id), NoPanic, [id |-> r.id, sub |-> <<>>])

\* mutant: every registration of Config creates a slot of its own
Config_init_state_fresh_slot(st, meta, t) ==
    LET st2 == [st EXCEPT !.configs = Append(@, ConfigRaw_new(t, TRUE, DefaultValue))]
        id == Len(st.configs) + 1
    IN IF DebugAssertFails(~has_writes_all_configs(meta))
       THEN InitResult(st2, meta, Panic("conflict", <<type_name(Config(t))>>, "&mut Storage", meta.name), NoState)
       ELSE IF DebugAssertFails(~has_config_write(meta, id))
       THEN InitResult(st2, meta, Panic("conflict", <<type_name(Config(t))>>, "ConfigMut", meta.name), NoState)
       ELSE InitResult(st2, add_config_read(meta, id), NoPanic, [id |-> id, sub |-> <<>>])

\* mutant: Config also treats an earlier whole-storage read as a conflict
Config_init_state_reads_all_checked(st, meta, t) ==
    LET r == Storage_add_config_default_if_not_present(st, t)
    IN IF DebugAssertFails(~has_writes_all_configs(meta))
       THEN InitResult(r.st, meta, Panic("conflict", <<type_name(Config(t))>>, "&mut Storage", meta.name), NoState)
       ELSE IF DebugAssertFails(~has_reads_all_configs(meta))
       THEN InitResult(r.st, meta, Panic("conflict", <<type_name(Config(t))>>, "&Storage", meta.name), NoState)
       ELSE IF DebugAssertFails(~has_config_write(meta, r.id))
       THEN InitResult(r.st, meta, Panic("conflict", <<type_name(Config(t))>>, "ConfigMut", meta.name), NoState)
       ELSE InitResult(r.st, add_config_read(meta, r.id), NoPanic, [id |-> r.id, sub |-> <<>>])

Config_init_state(st, meta, t) ==
    LET r == Storage_add_config_default_if_not_present(st, t)
    IN IF DebugAssertFails(~has_writes_all_configs(meta))
       THEN InitResult(r.st, meta, Panic("conflict", <<type_name(Config(t))>>, "&mut Storage", meta.name), NoState)
       ELSE IF DebugAssertFails(~has_config_write(meta, r.id))
       THEN InitResult(r.st, meta, Panic("conflict", <<type_name(Config(t))>>, "ConfigMut", meta.name), NoState)
       ELSE InitResult(r.st, add_config_read(meta, r.id), NoPanic, [id |-> r.id, sub |-> <<>>])

\* mutant: ConfigMut does not look for an earlier whole-storage access
ConfigMut_init_state_storage_unchecked(st, meta, t) ==
    LET r == Storage_add_config_default_if_not_present(st, t)
        st2 == Storage_unlock_config(r.st, r.id)
        conflict(prev) == InitResult(st2, meta, Panic("conflict", <<type_name(ConfigMut(t))>>, prev, meta.name), NoState)
    IN IF DebugAssertFails(~has_config_write(meta, r.id)) THEN conflict("ConfigMut")
       ELSE IF DebugAssertFails(~has_config_read(meta, r.id)) THEN conflict("Config")
       ELSE InitResult(st2, add_config_write(meta, r.id), NoPanic, [id |-> r.id, sub |-> <<>>])

\* mutant: ConfigMut looks for an earlier read but not for an earlier write
ConfigMut_init_state_write_unchecked(st, meta, t) ==
    LET r == Storage_add_config_default_if_not_present(st, t)
        st2 == Storage_unlock_config(r.st, r.id)
    IN IF DebugAssertFails(~has_config_read(meta, r.id))
       THEN InitResult(st2, meta, Panic("conflict", <<type_name(ConfigMut(t))>>, "Config", meta.name), NoState)
       ELSE InitResult(st2, add_config_write(meta, r.id), NoPanic, [id |-> r.id, sub |-> <<>>])

ConfigMut_init_state(st, meta, t) ==
    LET r == Storage_add_config_default_if_not_present(st, t)
        st2 == Storage_unlock_config(r.st, r.id)
        conflict(prev) == InitResult(st2, meta, Panic("conflict", <<type_name(ConfigMut(t))>>, prev, meta.name), NoState)
    IN IF DebugAssertFails(~has_writes_all_configs(meta)) THEN conflict("&mut Storage")
       ELSE IF DebugAssertFails(~has_reads_all_configs(meta)) THEN conflict("&Storage")
       ELSE IF DebugAssertFails(~has_config_write(meta, r.id)) THEN conflict("ConfigMut")
       ELSE IF DebugAssertFails(~has_config_read(meta, r.id)) THEN conflict("Config")
       ELSE InitResult(st2, add_config_write(meta, r.id), NoPanic, [id |-> r.id, sub |-> <<>>])

\* mutant: Commands marks the deferred access without looking for an earlier one
Commands_init_state_unchecked(st, meta) ==
    InitResult(st, set_deferred(meta), NoPanic, NoState)

\* mutant: Commands treats every earlier per-slot access as a conflict
Commands_init_state_exclusive(st, meta) ==
    IF DebugAssertFails(~has_deferred(meta))
    THEN InitResult(st, meta, Panic("conflict", <<type_name(Commands)>>, "Commands", meta.name), NoState)
    ELSE IF has_any_config_read(meta)
    THEN InitResult(st, meta, Panic("conflict", <<type_name(Commands)>>, "Config", meta.name), NoState)
    ELSE IF has_any_config_write(meta)
    THEN InitResult(st, meta, Panic("conflict", <<type_name(Commands)>>, "ConfigMut", meta.name), NoState)
    ELSE InitResult(st, set_deferred(meta), NoPanic, NoState)

Commands_init_state(st, meta) ==
    IF DebugAssertFails(~has_deferred(meta))
    THEN InitResult(st, meta, Panic("conflict", <<type_name(Commands)>>, "Commands", meta.name), NoState)
    ELSE InitResult(st, set_deferred(meta), NoPanic, NoState)

Service_init_state(st, meta, s) ==
    LET r == Storage_register_service(st, s)
    IN InitResult(r.st, meta, NoPanic, [id |-> r.id, sub |-> <<>>])

\* &mut Storage: conflicts with every earlier config access of the
\* component, per slot or whole-storage
Storage_mut_init_state(st, meta) ==
    LET conflict(prev) == InitResult(st, meta, Panic("conflict", <<type_name(Storage_mut)>>, prev, meta.name), NoState)
    IN IF has_any_config_read(meta) THEN conflict("Config")
       ELSE IF has_any_config_write(meta) THEN conflict("ConfigMut")
       ELSE IF has_reads_all_configs(meta) THEN conflict("&Storage")
       ELSE IF has_writes_all_configs(meta) THEN conflict("&mut Storage")
       ELSE InitResult(st, set_writes_all_configs(meta), NoPanic, NoState)

\* &Storage: conflicts with every earlier write access of the component
Storage_ref_init_state(st, meta) ==
    LET conflict(prev) == InitResult(st, meta, Panic("conflict", <<type_name(Storage_ref)>>, prev, meta.name), NoState)
    IN IF has_any_config_write(meta) THEN conflict("ConfigMut")
       ELSE IF has_writes_all_configs(meta) THEN conflict("&mut Storage")
       ELSE InitResult(st, set_reads_all_configs(meta), NoPanic, NoState)

RECURSIVE init_state(_, _, _)
RECURSIVE Tuple_init_state(_, _, _, _)
\* the members of a tuple, first to last; a panic ends the fold
Tuple_init_state(ps, st, meta, states) ==
    IF ps = <<>> THEN InitResult(st, meta, NoPanic, [id |-> 0, sub |-> states])
    ELSE LET r == init_state(Head(ps), st, meta)
         IN IF r.panic # NoPanic THEN r
            ELSE Tuple_init_state(Tail(ps), r.st, r.meta, Append(states, r.state))

\* mutant: an optional parameter leaves no trace in the access record
Option_init_state_unrecorded(p, st, meta) ==
    [init_state(p.sub[1], st, MetaData_new(meta.name)) EXCEPT !.meta = meta]

\* Option<P>::init_state: P::init_state(storage, meta)
Option_init_state(p, st, meta) == init_state(p.sub[1], st, meta)

init_state(p, st, meta) ==
    CASE p.kind = "Config" -> Config_init_state(st, meta, p.t)
      [] p.kind = "ConfigMut" -> ConfigMut_init_state(st, meta, p.t)
      [] p.kind = "Commands" -> Commands_init_state(st, meta)
      [] p.kind = "Service" -> Service_init_state(st, meta, p.t)
      [] p.kind = "&Storage" -> Storage_ref_init_state(st, meta)
      [] p.kind = "&mut Storage" -> Storage_mut_init_state(st, meta)
      [] p.kind = "Option" -> Option_init_state(p, st, meta)
      [] p.kind = "Tuple" -> Tuple_init_state(p.sub, st, meta, <<>>)


(* ------------------------- Param::validate ----------------------------- *)
Config_validate(state, st) == Storage_get_raw_config(st, state.id).locked
\* mutant: ConfigMut reported available whatever the lock flag
ConfigMut_validate_ignoring_lock(state, st) == TRUE
ConfigMut_validate(state, st) == ~Storage_get_raw_config(st, state.id).locked
\* mutant: a registered interface counts as available
Service_validate_registered(state, st) == state.id # 0
Service_validate(state, st) == Storage_has_service(st, state.id)
Commands_validate(state, st) == TRUE
Option_validate(state, st) == TRUE
\* &Storage and &mut Storage can always be retrieved
Storage_validate(state, st) == TRUE
\* "This function is not used as we are overwriting the try_validate"
Tuple_validate(state, st) == TRUE

validate(p, state, st) ==
    CASE p.kind = "Config" -> Config_validate(state, st)
      [] p.kind = "ConfigMut" -> ConfigMut_validate(state, st)
      [] p.kind = "Service" -> Service_validate(state, st)
      [] p.kind = "Commands" -> Commands_validate(state, st)
      [] p.kind \in {"&Storage", "&mut Storage"} -> Storage_validate(state, st)
      [] p.kind = "Option" -> Option_validate(state, st)
      [] p.kind = "Tuple" -> Tuple_validate(state, st)

\* Results are Ok(()) as <<>> and Err(name) as <<name>>.
\* The tuple override: the first member whose own validate is false
Tuple_try_validate(p, state, st) ==
    LET bad == {i \in 1..Len(p.sub) : ~validate(p.sub[i], state.sub[i], st)}
    IN IF bad = {} THEN <<>>
       ELSE <<type_name(p.sub[CHOOSE i \in bad : \A j \in bad : i <= j])>>

\* The trait's default for every other kind
Param_try_validate(p, state, st) ==
    IF validate(p, state, st) THEN <<>> ELSE <<type_name(p)>>

try_validate(p, state, st) ==
    IF p.kind = "Tuple" THEN Tuple_try_validate(p, state, st)
    ELSE Param_try_validate(p, state, st)

(* ------------------------- Param::get_param ---------------------------- *)
\* Extraction context: ids borrowed shared (Ref) and exclusively (RefMut) by
\* the items extracted so far, whether a Commands handle was extracted, the
\* panic raised, and the item extracted last.
NoItem == [kind |-> "NoItem", id |-> 0, value |-> 0, sub |-> <<>>]
Item(k, id, v, sub) == [kind |-> k, id |-> id, value |-> v, sub |-> sub]
Ctx(sh, ex, cmds, pn, item) == [sh |-> sh, ex |-> ex, cmds |-> cmds, panic |-> pn, item |-> item]

\* RefCell::borrow of the slot: fails while a RefMut of it is alive
\* mutant: Config hands out the default value whatever the slot holds
Config_get_param_default(state, st, c) ==
    IF state.id \in c.ex
    THEN Ctx(c.sh, c.ex, c.cmds, Panic("BorrowError", <<>>, "-", "-"), NoItem)
    ELSE Ctx(c.sh \cup {state.id}, c.ex, c.cmds, NoPanic,
             Item("Config", state.id, DefaultValue, <<>>))

Config_get_param(state, st, c) ==
    IF state.id \in c.ex
    THEN Ctx(c.sh, c.ex, c.cmds, Panic("BorrowError", <<>>, "-", "-"), NoItem)
    ELSE Ctx(c.sh \cup {state.id}, c.ex, c.cmds, NoPanic,
             Item("Config", state.id, Storage_get_raw_config(st, state.id).value, <<>>))

\* RefCell::borrow_mut of the slot: fails while any borrow of it is alive
ConfigMut_get_param(state, st, c) ==
    IF state.id \in c.ex \cup c.sh
    THEN Ctx(c.sh, c.ex, c.cmds, Panic("BorrowMutError", <<>>, "-", "-"), NoItem)
    ELSE Ctx(c.sh, c.ex \cup {state.id}, c.cmds, NoPanic,
             Item("ConfigMut", state.id, Storage_get_raw_config(st, state.id).value, <<>>))

Service_get_param(state, st, c) ==
    IF ~Storage_has_service(st, state.id)
    THEN Ctx(c.sh, c.ex, c.cmds, Panic("Could not find Service value", <<>>, "-", "-"), NoItem)
    ELSE Ctx(c.sh, c.ex, c.cmds, NoPanic, Item("Service", state.id, 0, <<>>))

Commands_get_param(state, st, c) ==
    Ctx(c.sh, c.ex, TRUE, NoPanic, Item("Commands", 0, 0, <<>>))

\* &Storage and &mut Storage: the storage itself, no slot is borrowed
Storage_get_param(p, st, c) ==
    Ctx(c.sh, c.ex, c.cmds, NoPanic, Item(p.kind, 0, 0, <<>>))

\* validate of a config kind borrows the slot to read its lock flag
ValidateBorrowFails(p, state, c) ==
    p.kind \in {"Config", "ConfigMut"} /\ state.id \in c.ex

RECURSIVE get_param(_, _, _, _)
RECURSIVE Tuple_get_param(_, _, _, _, _)
Tuple_get_param(ps, states, st, c, items) ==
    IF ps = <<>> THEN Ctx(c.sh, c.ex, c.cmds, NoPanic, Item("Tuple", 0, 0, items))
    ELSE LET r == get_param(Head(ps), Head(states), st, c)
         IN IF r.panic # NoPanic THEN r
            ELSE Tuple_get_param(Tail(ps), Tail(states), st, r, Append(items, r.item))

\* Option<P>: Some(P::get_param) when P::validate is true, otherwise None
Option_get_param(p, state, st, c) ==
    IF ValidateBorrowFails(p.sub[1], state, c)
    THEN Ctx(c.sh, c.ex, c.cmds, Panic("BorrowError", <<>>, "-", "-"), NoItem)
    ELSE IF validate(p.sub[1], state, st)
    THEN LET r == get_param(p.sub[1], state, st, c)
         IN IF r.panic # NoPanic THEN r
            ELSE Ctx(r.sh, r.ex, r.cmds, NoPanic, Item("Some", 0, 0, <<r.item>>))
    ELSE Ctx(c.sh, c.ex, c.cmds, NoPanic, Item("None", 0, 0, <<>>))

get_param(p, state, st, c) ==
    CASE p.kind = "Config" -> Config_get_param(state, st, c)
      [] p.kind = "ConfigMut" -> ConfigMut_get_param(state, st, c)
      [] p.kind = "Service" -> Service_get_param(state, st, c)
      [] p.kind = "Commands" -> Commands_get_param(state, st, c)
      [] p.kind \in {"&Storage", "&mut Storage"} -> Storage_get_param(p, st, c)
      [] p.kind = "Option" -> Option_get_param(p, state, st, c)
      [] p.kind = "Tuple" -> Tuple_get_param(p.sub, state.sub, st, c, <<>>)


(* --------------------------- Commands ---------------------------------- *)
\* mutant: the config is added at once instead of queued
Commands_add_config_immediate(st, t, v) == Storage_add_config(st, t, v)

\* mutant: the closure is queued twice
Commands_add_config_twice(st, t, v) ==
    Deferred_add_command(Deferred_add_command(st, AddConfigCmd(t, v)), AddConfigCmd(t, v))

\* Commands::add_config: queue a closure that calls Storage::add_config
Commands_add_config(st, t, v) == Deferred_add_command(st, AddConfigCmd(t, v))

\* Commands::add_service: queue a closure that calls Storage::add_service
Commands_add_service(st, s) == Deferred_add_command(st, AddServiceCmd(s))

(* ------------------------ the user callable ---------------------------- *)
\* What a callable may do with the items it is given: write a value through
\* its ConfigMut handles (DerefMut), lock them (ConfigMut::lock), queue
\* commands through its Commands handle, and return Ok(()) or Err(e).
CmdSet == {AddConfigCmd("u32", v) : v \in Values} \cup {AddServiceCmd(s) : s \in ServiceTypes}
CmdSeqs(n) == UNION {[1..k -> CmdSet] : k \in 0..n}

Behaviours(c, st) ==
    [result : {"Ok", "Err"},
     write : IF c.ex = {} THEN {<<>>} ELSE {<<>>} \cup {<<v>> : v \in Values},
     lock : IF c.ex = {} THEN {FALSE} ELSE BOOLEAN,
     cmds : IF c.cmds /\ Len(st.deferred) < MaxQueue
            THEN CmdSeqs(MaxQueue - Len(st.deferred)) ELSE {<<>>}]

\* mutant: the value written through the handle is lost
ConfigMut_use_write_lost(st, ex, write, lock) ==
    [st EXCEPT !.configs = [i \in 1..Len(st.configs) |->
        IF i \in ex
        THEN [st.configs[i] EXCEPT !.locked = IF lock THEN TRUE ELSE @]
        ELSE st.configs[i]]]

\* ConfigMut::deref_mut and ConfigMut::lock on every handle held
ConfigMut_use(st, ex, write, lock) ==
    [st EXCEPT !.configs = [i \in 1..Len(st.configs) |->
        IF i \in ex
        THEN [st.configs[i] EXCEPT !.value = IF write = <<>> THEN @ ELSE write[1],
                                   !.locked = IF lock THEN TRUE ELSE @]
        ELSE st.configs[i]]]

RECURSIVE Commands_use(_, _)
Commands_use(st, cmds) ==
    IF cmds = <<>> THEN st
    ELSE Commands_use(IF Head(cmds).op = "add_config"
                      THEN Commands_add_config(st, Head(cmds).t, Head(cmds).v)
                      ELSE Commands_add_service(st, Head(cmds).t),
                      Tail(cmds))

Callable(st, c, beh) == Commands_use(ConfigMut_use(st, c.ex, beh.write, beh.lock), beh.cmds)

(* ------------------------- device path memory -------------------------- *)
\* r_efi::protocols::device_path
TYPE_HARDWARE == 1
TYPE_ACPI == 2
TYPE_END == 127
SUBTYPE_PCI == 1
SUBTYPE_INSTANCE == 1
SUBTYPE_ENTIRE == 255
\* size_of::<efi::protocols::device_path::Protocol>(): type, sub_type, length
HeaderSize == 4

\* A node as a caller lays it out: type, sub_type, the length of the whole
\* node as u16 little endian, then the payload
Node(type, sub_type, data) == [type |-> type, sub_type |-> sub_type, data |-> data]
NodeBytes(n) ==
    <<n.type, n.sub_type, (HeaderSize + Len(n.data)) % 256, (HeaderSize + Len(n.data)) \div 256>> \o n.data
EndEntire == Node(TYPE_END, SUBTYPE_ENTIRE, <<>>)
RECURSIVE PathBytes(_)
PathBytes(ns) == IF ns = <<>> THEN NodeBytes(EndEntire) ELSE NodeBytes(Head(ns)) \o PathBytes(Tail(ns))

\* the nodes paths are built from: two PCI nodes, a node without payload
\* and the end of one instance of a multi-instance path
NodeSet ==
    { Node(TYPE_HARDWARE, SUBTYPE_PCI, <<0, 28>>), Node(TYPE_HARDWARE, SUBTYPE_PCI, <<2, 0>>),
      Node(TYPE_ACPI, 1, <<>>), Node(TYPE_END, SUBTYPE_INSTANCE, <<>>) }
NodeSeqs == UNION {[1..k -> NodeSet] : k \in 0..MaxNodes}
\* a pointer to a well-formed device path: its bytes, and the nodes the
\* caller built it from (the end-of-entire-path node not listed)
DevicePath(ns) == [null |-> FALSE, nodes |-> ns, bytes |-> PathBytes(ns)]
NullPath == [null |-> TRUE, nodes |-> <<>>, bytes |-> <<>>]
NoPaths == [a |-> NullPath, b |-> NullPath]
NoWalker == [live |-> FALSE, next_node |-> <<>>, returned |-> <<>>]

(* --------------------------- Service handles --------------------------- *)
\* A Service<T> is a OnceCell<&'static dyn Any>: value is <<>> while the cell
\* is empty and <<obj>> once it is set. NoHandle is a handle not created.
NoHandle == [live |-> FALSE, value |-> <<>>]
NoHandles == [h \in Handles |-> NoHandle]
NoCall == [fn |-> "-", args |-> <<>>, result |-> <<>>]
Call(fn, args, result) == [fn |-> fn, args |-> args, result |-> result]

\* Service::new_uninit
Service_new_uninit == [live |-> TRUE, value |-> <<>>]
\* From<&'static dyn Any> for Service<T>: a new cell, set to the value
Service_from(obj) == [live |-> TRUE, value |-> <<obj>>]
\* Service::mock: the boxed value leaked, a new cell set to it
Service_mock(obj) == [live |-> TRUE, value |-> <<obj>>]
\* Clone for Service<T>: the cell cloned with what it holds
Service_clone(self) == [live |-> TRUE, value |-> self.value]

\* mutant: replace overwrites the cell of a target that is already set
Service_replace_overwriting(self, service) ==
    IF service.value = <<>>
    THEN [self |-> self, panic |-> Panic("expect", <<"Provided Service was not initialized!">>, "-", "-")]
    ELSE [self |-> [self EXCEPT !.value = service.value], panic |-> NoPanic]

\* Service::replace: expect on the source's get, then expect on the
\* target's set, which fails when the cell is already set
Service_replace(self, service) ==
    IF service.value = <<>>
    THEN [self |-> self, panic |-> Panic("expect", <<"Provided Service was not initialized!">>, "-", "-")]
    ELSE IF self.value # <<>>
    THEN [self |-> self, panic |-> Panic("expect", <<"Service was already initialized!">>, "-", "-")]
    ELSE [self |-> [self EXCEPT !.value = service.value], panic |-> NoPanic]

\* Deref for Service<T>: the service of a set cell, unreachable! otherwise
Service_deref(self) ==
    IF self.value # <<>>
    THEN [target |-> self.value, panic |-> NoPanic]
    ELSE [target |-> <<>>, panic |-> Panic("unreachable", <<"Service should be initialized first!">>, "-", "-")]

(* ------------------------- StructComponent ----------------------------- *)
\* The components explored: a name, how the callable takes its input
\* (RunOnce: by value; RunMany: by reference; NoInput: none) and Func::Param,
\* the tuple of the callable's parameters.
Decl(name, mode, ps) == [name |-> name, mode |-> mode, params |-> Tuple(ps)]

D_Writer == Decl("Writer", "RunOnce", <<ConfigMut("u32")>>)
D_Reader == Decl("Reader", "RunOnce", <<Config("u32")>>)
D_Producer == Decl("Producer", "RunMany", <<Commands>>)
D_Consumer == Decl("Consumer", "RunMany", <<Service("TestService")>>)
D_TwoMut == Decl("TwoMut", "RunOnce", <<ConfigMut("u32"), ConfigMut("u32")>>)
D_TwoMutGroup == Decl("TwoMutGroup", "RunOnce", <<Tuple(<<ConfigMut("i32"), ConfigMut("i32")>>)>>)
D_MutThenRead == Decl("MutThenRead", "RunOnce", <<ConfigMut("u32"), Config("u32")>>)
D_ReadThenMut == Decl("ReadThenMut", "RunOnce", <<Config("u32"), ConfigMut("u32")>>)
D_Nested == Decl("Nested", "RunOnce", <<Config("i32"), Tuple(<<Config("u32"), Config("i32")>>)>>)
D_NestedService == Decl("NestedService", "RunMany", <<Tuple(<<Service("TestService")>>)>>)
D_OptReader == Decl("OptReader", "RunMany", <<Option(Config("u32"))>>)
D_OptGroup == Decl("OptGroup", "RunOnce", <<Option(Tuple(<<Config("u32")>>))>>)
D_OptWriter == Decl("OptWriter", "RunOnce", <<Option(ConfigMut("u32"))>>)
D_NoParams == Decl("NoParams", "NoInput", <<>>)
D_StorageMutThenConfig == Decl("StorageMutThenConfig", "RunOnce", <<Storage_mut, Config("u32")>>)
D_StorageMutThenConfigMut == Decl("StorageMutThenConfigMut", "RunOnce", <<Storage_mut, ConfigMut("u32")>>)
D_ConfigThenStorageMut == Decl("ConfigThenStorageMut", "RunOnce", <<Config("u32"), Storage_mut>>)
D_ConfigMutThenStorageMut == Decl("ConfigMutThenStorageMut", "RunOnce", <<ConfigMut("u32"), Storage_mut>>)
D_StorageThenConfigMut == Decl("StorageThenConfigMut", "RunOnce", <<Storage_ref, ConfigMut("i32")>>)
D_StorageThenConfig == Decl("StorageThenConfig", "RunOnce", <<Storage_ref, Config("i32")>>)
D_TwoMutService == Decl("TwoMutService", "RunMany",
                        <<ConfigMut("u32"), ConfigMut("u32"), Service("TestService")>>)
D_NestedMut == Decl("NestedMut", "RunOnce", <<Tuple(<<ConfigMut("u32")>>)>>)
D_OptMutThenRead == Decl("OptMutThenRead", "RunOnce", <<Option(ConfigMut("u32")), Config("u32")>>)
D_NestedMutThenService == Decl("NestedMutThenService", "RunOnce",
                               <<Tuple(<<ConfigMut("u32")>>), Service("TestService")>>)
D_TwoCommands == Decl("TwoCommands", "RunOnce", <<Commands, Commands>>)
D_CommandsFirst == Decl("CommandsFirst", "RunOnce", <<Commands, Config("i32"), ConfigMut("u32")>>)
D_CommandsMiddle == Decl("CommandsMiddle", "RunOnce", <<Config("i32"), Commands, ConfigMut("u32")>>)
D_CommandsLast == Decl("CommandsLast", "RunOnce", <<ConfigMut("u32"), Service("TestService"), Commands>>)

\* The sets of components registered together, in slot order
Scenarios ==
    { <<D_Writer, D_Reader>>, <<D_Writer, D_Nested>>, <<D_Writer, D_OptReader>>,
      <<D_Writer, D_OptGroup>>, <<D_OptWriter, D_Reader>>, <<D_Writer, D_OptWriter>>,
      <<D_Producer, D_Consumer>>, <<D_Producer, D_Producer>>, <<D_Producer, D_Reader>>,
      <<D_Producer, D_NestedService>>, <<D_Producer, D_Writer>>, <<D_Producer, D_TwoMutService>>,
      <<D_TwoMut>>, <<D_TwoMutGroup>>, <<D_NestedMut>>, <<D_OptMutThenRead>>,
      <<D_NestedMutThenService>>, <<D_MutThenRead>>, <<D_ReadThenMut>>, <<D_NoParams>>,
      <<D_StorageMutThenConfig>>, <<D_StorageMutThenConfigMut>>, <<D_ConfigThenStorageMut>>,
      <<D_ConfigMutThenStorageMut>>, <<D_StorageThenConfigMut>>, <<D_StorageThenConfig>>,
      <<D_TwoCommands>>, <<D_CommandsFirst>>, <<D_CommandsMiddle>>, <<D_CommandsLast>> }

NoDecl == Decl("-", "NoInput", <<>>)

EmptyComponent ==
    [decl |-> NoDecl, status |-> "empty", param_state |-> NoState,
     metadata |-> MetaData_new("-"), input |-> FALSE,
     invoked |-> 0, outcome |-> "none", items |-> NoItem]

\* StructComponent::new: input is Some, param_state is None
StructComponent_new(d) ==
    [decl |-> d, status |-> "constructed", param_state |-> NoState,
     metadata |-> MetaData_new(d.name), input |-> TRUE,
     invoked |-> 0, outcome |-> "none", items |-> NoItem]

\* mutant: every callable takes the input, also one that borrows it
ParamFunction_input_always_taken(mode, input) ==
    [some |-> input \/ mode = "NoInput", input |-> FALSE]

\* mutant: the by-value input is borrowed, not taken
ParamFunction_input_not_taken(mode, input) ==
    [some |-> input \/ mode = "NoInput", input |-> input]

\* ParamFunction::run up to the call: what becomes of the Option input.
\* RunOnce: input.take().unwrap(); RunMany: input.as_mut().unwrap() or
\* input.as_ref().unwrap(); a callable without input ignores it.
ParamFunction_input(mode, input) ==
    CASE mode = "RunOnce" -> [some |-> input, input |-> FALSE]
      [] mode = "RunMany" -> [some |-> input, input |-> input]
      [] mode = "NoInput" -> [some |-> TRUE, input |-> input]

(* ------------------------------ actions -------------------------------- *)
\* The state after construction: an empty Storage::new() and the components
\* of one scenario, each made by into_component()
Init ==
    /\ storage = Storage_new
    /\ \E sc \in Scenarios :
         components = [i \in Slots |-> IF i \in DOMAIN sc THEN StructComponent_new(sc[i])
                                       ELSE EmptyComponent]
    /\ panic = NoPanic
    /\ debug_assertions \in BOOLEAN
    /\ applied = <<>>
    /\ requested = <<>>
    /\ swept = FALSE
    /\ handles = NoHandles
    /\ call = NoCall
    /\ paths = NoPaths
    /\ walker = NoWalker

\* StructComponent::initialize, once per component
Initialize(i) ==
    /\ panic = NoPanic
    /\ components[i].status = "constructed"
    /\ LET c == components[i]
           r == init_state(c.decl.params, storage, c.metadata)
       IN /\ storage' = r.st
          /\ panic' = r.panic
          /\ components' = IF r.panic # NoPanic THEN components
                           ELSE [components EXCEPT ![i].status = "initialized",
                                                   ![i].param_state = r.state,
                                                   ![i].metadata = r.meta]
    /\ applied' = <<>>
    /\ UNCHANGED <<debug_assertions, requested, swept>>
    /\ UNCHANGED libVars

\* mutant: a component that failed validation once is given up, its input
\* dropped at the next attempt
Run_not_retried(i) ==
    /\ panic = NoPanic
    /\ components[i].status = "initialized"
    /\ components[i].invoked < MaxInvocations
    /\ LET c == components[i]
           bad == try_validate(c.decl.params, c.param_state, storage)
       IN /\ bad # <<>> \/ c.metadata.failed_param # <<>>
          /\ components' = [components EXCEPT ![i].metadata =
                                                 IF bad # <<>> THEN set_failed_param(@, bad[1]) ELSE @,
                                              ![i].input = IF bad # <<>> THEN @ ELSE FALSE,
                                              ![i].outcome = "Ok(false)"]
    /\ applied' = <<>>
    /\ UNCHANGED <<storage, panic, requested, debug_assertions, swept>>
    /\ UNCHANGED libVars

\* mutant: the input is taken before the parameters are validated
Run_input_taken_first(i) ==
    /\ panic = NoPanic
    /\ components[i].status = "initialized"
    /\ components[i].invoked < MaxInvocations
    /\ LET c == components[i]
           bad == try_validate(c.decl.params, c.param_state, storage)
       IN /\ bad # <<>>
          /\ components' = [components EXCEPT ![i].metadata = set_failed_param(@, bad[1]),
                                              ![i].input = FALSE,
                                              ![i].outcome = "Ok(false)"]
    /\ applied' = <<>>
    /\ UNCHANGED <<storage, panic, requested, debug_assertions, swept>>
    /\ UNCHANGED libVars

\* StructComponent::run_unsafe
Run(i) ==
    /\ panic = NoPanic
    /\ components[i].status # "empty"
    /\ components[i].invoked < MaxInvocations
    /\ LET c == components[i]
           bad == try_validate(c.decl.params, c.param_state, storage)
           g == get_param(c.decl.params, c.param_state, storage, Ctx({}, {}, FALSE, NoPanic, NoItem))
           inp == ParamFunction_input(c.decl.mode, c.input)
       IN IF c.status # "initialized"
          THEN /\ panic' = Panic("Param state created on initialize.", <<>>, "-", c.decl.name)
               /\ UNCHANGED <<storage, components, requested>>
          ELSE IF bad # <<>>
          THEN /\ components' = [components EXCEPT ![i].metadata = set_failed_param(@, bad[1]),
                                                   ![i].outcome = "Ok(false)"]
               /\ UNCHANGED <<storage, panic, requested>>
          ELSE IF g.panic # NoPanic
          THEN /\ panic' = g.panic
               /\ UNCHANGED <<storage, components, requested>>
          ELSE IF DebugAssertFails(c.input)
          THEN /\ panic' = Panic("input is None during run", <<>>, "-", c.decl.name)
               /\ UNCHANGED <<storage, components, requested>>
          ELSE IF ~inp.some
          THEN /\ panic' = Panic("unwrap on None", <<>>, "-", c.decl.name)
               /\ UNCHANGED <<storage, components, requested>>
          ELSE \E beh \in Behaviours(g, storage) :
               /\ storage' = Callable(storage, g, beh)
               /\ requested' = requested \o beh.cmds
               /\ components' = [components EXCEPT ![i].input = inp.input,
                                                   ![i].invoked = @ + 1,
                                                   ![i].items = g.item,
                                                   ![i].outcome = IF beh.result = "Ok" THEN "Ok(true)" ELSE "Err"]
               /\ UNCHANGED panic
    /\ applied' = <<>>
    /\ UNCHANGED <<debug_assertions, swept>>
    /\ UNCHANGED libVars

\* Storage::apply_deferred, called by the scheduler between runs
ApplyDeferred ==
    /\ panic = NoPanic
    /\ storage' = Storage_apply_deferred(storage).st
    /\ applied' = Storage_apply_deferred(storage).log
    /\ requested' = <<>>
    /\ UNCHANGED <<components, panic, debug_assertions, swept>>
    /\ UNCHANGED libVars

\* Storage::lock_configs, the scheduler's lock sweep
LockConfigs ==
    /\ panic = NoPanic
    /\ storage' = Storage_lock_configs(storage)
    /\ applied' = <<>>
    /\ swept' = (swept \/ storage' # storage)
    /\ UNCHANGED <<components, panic, debug_assertions, requested>>
    /\ UNCHANGED libVars

Next ==
    \/ \E i \in Slots : Initialize(i)
    \/ \E i \in Slots : Run(i)
    \/ ApplyDeferred
    \/ LockConfigs

Spec == Init /\ [][Next]_vars


(* ------------------------ base.rs: alignment --------------------------- *)
\* T is an unsigned integer of Width bits
T_max == 2^Width - 1
T == 0..T_max
Ok(v) == [ok |-> TRUE, v |-> v]
Err(e) == [ok |-> FALSE, v |-> e]

Bit(x, k) == (x \div 2^k) % 2
RECURSIVE FromBits(_, _)
FromBits(b, k) == IF k = Width THEN 0 ELSE (IF b[k] THEN 2^k ELSE 0) + FromBits(b, k + 1)
\* x & y, x | y and !x on T
BitAnd(x, y) == FromBits([k \in 0..(Width - 1) |-> Bit(x, k) = 1 /\ Bit(y, k) = 1], 0)
BitOr(x, y) == FromBits([k \in 0..(Width - 1) |-> Bit(x, k) = 1 \/ Bit(y, k) = 1], 0)
BitNot(x) == FromBits([k \in 0..(Width - 1) |-> Bit(x, k) = 0], 0)
\* checked_add: None (here <<>>) on overflow
checked_add(x, y) == IF x + y > T_max THEN <<>> ELSE <<x + y>>
\* x + y and x - y of the primitive type: with overflow checks (on where
\* debug assertions are on) an overflow panics, without them it wraps
Add(x, y, checks) ==
    IF x + y > T_max
    THEN IF checks THEN [v |-> 0, panic |-> Panic("overflow", <<"attempt to add with overflow">>, "-", "-")]
         ELSE [v |-> (x + y) % 2^Width, panic |-> NoPanic]
    ELSE [v |-> x + y, panic |-> NoPanic]
Sub(x, y, checks) ==
    IF x < y
    THEN IF checks THEN [v |-> 0, panic |-> Panic("overflow", <<"attempt to subtract with overflow">>, "-", "-")]
         ELSE [v |-> (x - y + 2^Width) % 2^Width, panic |-> NoPanic]
    ELSE [v |-> x - y, panic |-> NoPanic]

is_power_of_two(x) == x > 0 /\ BitAnd(x, x - 1) = 0

\* mutant: the mask is built from align instead of align - 1
align_down_mask_of_align(addr, align) ==
    IF ~is_power_of_two(align) THEN Err("InvalidParameter")
    ELSE Ok(BitAnd(addr, BitNot(align)))

align_down(addr, align) ==
    IF ~is_power_of_two(align) THEN Err("InvalidParameter")
    ELSE Ok(BitAnd(addr, BitNot(align - 1)))

\* mutant: the addition wraps instead of being checked
align_up_wrapping(addr, align) ==
    IF ~is_power_of_two(align) THEN Err("InvalidParameter")
    ELSE LET align_mask == align - 1
         IN IF BitAnd(addr, align_mask) = 0 THEN Ok(addr)
            ELSE Ok((BitOr(addr, align_mask) + 1) % 2^Width)

align_up(addr, align) ==
    IF ~is_power_of_two(align) THEN Err("InvalidParameter")
    ELSE LET align_mask == align - 1
         IN IF BitAnd(addr, align_mask) = 0 THEN Ok(addr)
            ELSE LET sum == checked_add(BitOr(addr, align_mask), 1)
                 IN IF sum = <<>> THEN Err("InvalidParameter") ELSE Ok(sum[1])

\* align_range: the result, or the overflow panic of base + length or of
\* aligned_end - aligned_base
align_range(base, length, align, checks) ==
    IF ~is_power_of_two(align) THEN [result |-> Err("InvalidParameter"), panic |-> NoPanic]
    ELSE LET end == Add(base, length, checks)
         IN IF end.panic # NoPanic THEN [result |-> <<>>, panic |-> end.panic]
            ELSE LET aligned_end == align_up(end.v, align)
                 IN IF ~aligned_end.ok THEN [result |-> aligned_end, panic |-> NoPanic]
                    ELSE LET aligned_base == align_down(base, align)
                         IN IF ~aligned_base.ok THEN [result |-> aligned_base, panic |-> NoPanic]
                            ELSE LET aligned_length == Sub(aligned_end.v, aligned_base.v, checks)
                                 IN IF aligned_length.panic # NoPanic
                                    THEN [result |-> <<>>, panic |-> aligned_length.panic]
                                    ELSE [result |-> Ok(<<aligned_base.v, aligned_length.v>>),
                                          panic |-> NoPanic]

\* A caller picks base (addr), length and align, then calls one function
InitAlign ==
    /\ storage = Storage_new
    /\ components = [i \in Slots |-> EmptyComponent]
    /\ panic = NoPanic
    /\ debug_assertions \in BOOLEAN
    /\ applied = <<>>
    /\ requested = <<>>
    /\ swept = FALSE
    /\ handles = NoHandles
    /\ \E base \in T, length \in T, align \in T : call = Call("input", <<base, length, align>>, <<>>)
    /\ paths = NoPaths
    /\ walker = NoWalker

AlignDown ==
    /\ call.fn = "input"
    /\ call' = Call("align_down", <<call.args[1], call.args[3]>>, align_down(call.args[1], call.args[3]))
    /\ UNCHANGED <<mainVars, panic, handles, dpVars>>

AlignUp ==
    /\ call.fn = "input"
    /\ call' = Call("align_up", <<call.args[1], call.args[3]>>, align_up(call.args[1], call.args[3]))
    /\ UNCHANGED <<mainVars, panic, handles, dpVars>>

AlignRange ==
    /\ call.fn = "input"
    /\ LET r == align_range(call.args[1], call.args[2], call.args[3], debug_assertions)
       IN /\ call' = Call("align_range", call.args, r.result)
          /\ panic' = r.panic
    /\ UNCHANGED <<mainVars, handles, dpVars>>

NextAlign == AlignDown \/ AlignUp \/ AlignRange

SpecAlign == InitAlign /\ [][NextAlign]_vars

(* ------------------- patina_internal_device_path ---------------------- *)
\* pointers into a path are byte offsets from its start
\* reading an efi::protocols::device_path::Protocol at ptr
read(bytes, ptr) ==
    [type |-> bytes[ptr + 1], sub_type |-> bytes[ptr + 2], length |-> <<bytes[ptr + 3], bytes[ptr + 4]>>]
u16_from_le_bytes(b) == b[1] + 256 * b[2]
\* slice_from_raw_parts(ptr as *const u8, len)
slice_from_raw_parts(bytes, ptr, len) == SubSeq(bytes, ptr + 1, ptr + len)

is_device_path_end(node) == node.type = TYPE_END /\ node.sub_type = SUBTYPE_ENTIRE

\* the loop of device_path_node_count
RECURSIVE node_count_loop(_, _, _, _)
node_count_loop(bytes, current_node_ptr, node_count, dev_path_size) ==
    LET current_node == read(bytes, current_node_ptr)
        current_length == u16_from_le_bytes(current_node.length)
    IN IF current_node.type = TYPE_END
       THEN Ok(<<node_count + 1, dev_path_size + current_length>>)
       ELSE node_count_loop(bytes, current_node_ptr + current_length,
                            node_count + 1, dev_path_size + current_length)

device_path_node_count(device_path) ==
    IF device_path.null
    THEN IF DebugAssertFails(~device_path.null)
         THEN [result |-> <<>>, panic |-> Panic("debug_assert", <<"!current_node_ptr.is_null()">>, "-", "-")]
         ELSE [result |-> Err("INVALID_PARAMETER"), panic |-> NoPanic]
    ELSE [result |-> node_count_loop(device_path.bytes, 0, 0, 0), panic |-> NoPanic]

\* mutant: the nodes are compared by their headers only
RECURSIVE remaining_device_path_headers_only(_, _, _, _, _)
remaining_device_path_headers_only(a, b, a_ptr, b_ptr, node_count) ==
    LET a_node == read(a, a_ptr)
        b_node == read(b, b_ptr)
        a_length == u16_from_le_bytes(a_node.length)
        b_length == u16_from_le_bytes(b_node.length)
    IN IF is_device_path_end(a_node) THEN <<b_ptr, node_count>>
       ELSE IF a_node # b_node THEN <<>>
       ELSE remaining_device_path_headers_only(a, b, a_ptr + a_length, b_ptr + b_length, node_count + 1)

\* remaining_device_path: None is <<>>, Some((ptr, n)) is <<ptr, n>>
RECURSIVE remaining_device_path(_, _, _, _, _)
remaining_device_path(a, b, a_ptr, b_ptr, node_count) ==
    LET a_node == read(a, a_ptr)
        b_node == read(b, b_ptr)
        a_length == u16_from_le_bytes(a_node.length)
        b_length == u16_from_le_bytes(b_node.length)
        a_slice == slice_from_raw_parts(a, a_ptr, a_length)
        b_slice == slice_from_raw_parts(b, b_ptr, b_length)
    IN IF is_device_path_end(a_node) THEN <<b_ptr, node_count>>
       ELSE IF a_slice # b_slice THEN <<>>
       ELSE remaining_device_path(a, b, a_ptr + a_length, b_ptr + b_length, node_count + 1)

\* DevicePathNode::new: None (<<>>) when the length is below the header's
DevicePathNode_new(bytes, node) ==
    LET header == read(bytes, node)
        node_len == u16_from_le_bytes(header.length)
    IN IF node_len < HeaderSize THEN <<>>
       ELSE <<[header |-> header,
               data |-> slice_from_raw_parts(bytes, node + HeaderSize, node_len - HeaderSize)]>>

DevicePathWalker_new(device_path) == [live |-> TRUE, next_node |-> <<device_path>>, returned |-> <<>>]

\* mutant: the walker stops before the end-of-entire-path node
DevicePathWalker_next_without_end(bytes, self) ==
    IF self.next_node = <<>> THEN [next_node |-> <<>>, item |-> <<>>]
    ELSE LET node == self.next_node[1]
             current == DevicePathNode_new(bytes, node)
         IN IF current = <<>> THEN [next_node |-> self.next_node, item |-> <<>>]
            ELSE IF is_device_path_end(read(bytes, node))
            THEN [next_node |-> <<>>, item |-> <<>>]
            ELSE [next_node |-> <<node + u16_from_le_bytes(current[1].header.length)>>, item |-> current]

\* Iterator::next of DevicePathWalker
DevicePathWalker_next(bytes, self) ==
    IF self.next_node = <<>> THEN [next_node |-> <<>>, item |-> <<>>]
    ELSE LET node == self.next_node[1]
             current == DevicePathNode_new(bytes, node)
         IN IF current = <<>> THEN [next_node |-> self.next_node, item |-> <<>>]
            ELSE IF is_device_path_end(read(bytes, node))
            THEN [next_node |-> <<>>, item |-> current]
            ELSE [next_node |-> <<node + u16_from_le_bytes(current[1].header.length)>>, item |-> current]

\* A caller holds two well-formed device paths (a may be a null pointer),
\* and either calls one of the functions or walks path a
InitDevicePath ==
    /\ storage = Storage_new
    /\ components = [i \in Slots |-> EmptyComponent]
    /\ panic = NoPanic
    /\ debug_assertions \in BOOLEAN
    /\ applied = <<>>
    /\ requested = <<>>
    /\ swept = FALSE
    /\ handles = NoHandles
    /\ call = NoCall
    /\ \E pa \in {NullPath} \cup {DevicePath(na) : na \in NodeSeqs}, nb \in NodeSeqs :
          paths = [a |-> pa, b |-> DevicePath(nb)]
    /\ walker = NoWalker

NodeCount ==
    /\ call = NoCall /\ ~walker.live
    /\ LET r == device_path_node_count(paths.a)
       IN /\ call' = Call("device_path_node_count", <<"a">>, r.result)
          /\ panic' = r.panic
    /\ UNCHANGED <<mainVars, handles, dpVars>>

RemainingDevicePath ==
    /\ call = NoCall /\ ~walker.live
    /\ ~paths.a.null
    /\ call' = Call("remaining_device_path", <<"a", "b">>,
                    remaining_device_path(paths.a.bytes, paths.b.bytes, 0, 0, 0))
    /\ UNCHANGED <<mainVars, panic, handles, dpVars>>

WalkerNew ==
    /\ call = NoCall /\ ~walker.live
    /\ ~paths.a.null
    /\ walker' = DevicePathWalker_new(0)
    /\ UNCHANGED <<mainVars, panic, handles, call, paths>>

WalkerNext ==
    /\ walker.live
    /\ Cardinality({k \in 1..Len(walker.returned) : walker.returned[k] = <<>>}) < MaxNone
    /\ LET r == DevicePathWalker_next(paths.a.bytes, walker)
       IN walker' = [walker EXCEPT !.next_node = r.next_node, !.returned = Append(@, r.item)]
    /\ UNCHANGED <<mainVars, panic, handles, call, paths>>

NextDevicePath == NodeCount \/ RemainingDevicePath \/ WalkerNew \/ WalkerNext

SpecDevicePath == InitDevicePath /\ [][NextDevicePath]_vars

(* ---------------- a program working with Service handles --------------- *)
InitService ==
    /\ storage = Storage_new
    /\ components = [i \in Slots |-> EmptyComponent]
    /\ panic = NoPanic
    /\ debug_assertions \in BOOLEAN
    /\ applied = <<>>
    /\ requested = <<>>
    /\ swept = FALSE
    /\ handles = NoHandles
    /\ call = NoCall
    /\ paths = NoPaths
    /\ walker = NoWalker

NewUninit(h) ==
    /\ panic = NoPanic
    /\ ~handles[h].live
    /\ handles' = [handles EXCEPT ![h] = Service_new_uninit]
    /\ call' = Call("new_uninit", <<h>>, <<>>)
    /\ UNCHANGED <<mainVars, panic, dpVars>>

Mock(h, obj) ==
    /\ panic = NoPanic
    /\ ~handles[h].live
    /\ handles' = [handles EXCEPT ![h] = Service_mock(obj)]
    /\ call' = Call("mock", <<h>>, <<>>)
    /\ UNCHANGED <<mainVars, panic, dpVars>>

From(h, obj) ==
    /\ panic = NoPanic
    /\ ~handles[h].live
    /\ handles' = [handles EXCEPT ![h] = Service_from(obj)]
    /\ call' = Call("from", <<h>>, <<>>)
    /\ UNCHANGED <<mainVars, panic, dpVars>>

Clone(h, src) ==
    /\ panic = NoPanic
    /\ handles[src].live /\ ~handles[h].live
    /\ handles' = [handles EXCEPT ![h] = Service_clone(handles[src])]
    /\ call' = Call("clone", <<h, src>>, <<>>)
    /\ UNCHANGED <<mainVars, panic, dpVars>>

Replace(target, source) ==
    /\ panic = NoPanic
    /\ handles[target].live /\ handles[source].live
    /\ LET r == Service_replace(handles[target], handles[source])
       IN /\ handles' = [handles EXCEPT ![target] = r.self]
          /\ panic' = r.panic
    /\ call' = Call("replace", <<target, source>>, <<>>)
    /\ UNCHANGED <<mainVars, dpVars>>

Deref(h) ==
    /\ panic = NoPanic
    /\ handles[h].live
    /\ LET r == Service_deref(handles[h])
       IN /\ panic' = r.panic
          /\ call' = Call("deref", <<h>>, r.target)
    /\ UNCHANGED <<mainVars, handles, dpVars>>

NextService ==
    \/ \E h \in Handles : NewUninit(h)
    \/ \E h \in Handles, obj \in ServiceObjs : Mock(h, obj)
    \/ \E h \in Handles, obj \in ServiceObjs : From(h, obj)
    \/ \E h, src \in Handles : Clone(h, src)
    \/ \E target, source \in Handles : Replace(target, source)
    \/ \E h \in Handles : Deref(h)

SpecService == InitService /\ [][NextService]_vars

(* ===================== properties of the specification ================= *)
IdState(id) == [id |-> id, sub |-> <<>>]
ConfigIds == 1..Len(storage.configs)
Initialized(i) == components[i].status = "initialized"

\* Validity as the specification's table of parameter kinds defines it:
\* Config: slot locked; ConfigMut: slot unlocked; Service: published;
\* Commands and Option: always; a grouping: all members valid.
RECURSIVE Valid(_, _, _)
Valid(p, state, st) ==
    CASE p.kind = "Config" -> st.configs[state.id].locked
      [] p.kind = "ConfigMut" -> ~st.configs[state.id].locked
      [] p.kind = "Service" -> state.id \in st.services
      [] p.kind = "Commands" -> TRUE
      [] p.kind = "Option" -> TRUE
      [] p.kind \in {"&Storage", "&mut Storage"} -> TRUE
      [] p.kind = "Tuple" -> \A k \in 1..Len(p.sub) : Valid(p.sub[k], state.sub[k], st)

\* The name the specification has a failed validation report: the kind
\* itself, and for a grouping its first failing member's own name
RECURSIVE FirstInvalid(_, _, _)
FirstInvalid(p, state, st) ==
    IF p.kind = "Tuple"
    THEN LET k == CHOOSE k \in 1..Len(p.sub) :
                      /\ ~Valid(p.sub[k], state.sub[k], st)
                      /\ \A j \in 1..(k - 1) : Valid(p.sub[j], state.sub[j], st)
         IN FirstInvalid(p.sub[k], state.sub[k], st)
    ELSE p

\* C1: in every reachable storage state and for every config slot that
\* exists, Config<T> validates iff the slot is locked and ConfigMut<T>
\* validates iff it is unlocked, so exactly one of the two validates.
C1_ConfigXorConfigMut ==
    \A id \in ConfigIds :
        LET t == storage.configs[id].type
            ro == try_validate(Config(t), IdState(id), storage) = <<>>
            rw == try_validate(ConfigMut(t), IdState(id), storage) = <<>>
        IN /\ ro <=> storage.configs[id].locked
           /\ rw <=> ~storage.configs[id].locked
           /\ ro # rw

\* C1 witness: an unlocked slot, where ConfigMut validates and Config fails
\* with its own name, next to a locked slot where it is the other way round
C1_Witness ==
    \E a, b \in ConfigIds :
        /\ ~storage.configs[a].locked /\ storage.configs[b].locked
        /\ try_validate(ConfigMut(storage.configs[a].type), IdState(a), storage) = <<>>
        /\ try_validate(Config(storage.configs[a].type), IdState(a), storage)
               = <<type_name(Config(storage.configs[a].type))>>
        /\ try_validate(ConfigMut(storage.configs[b].type), IdState(b), storage) # <<>>

\* C7: the callable of a RunOnce component is invoked at most once over any
\* sequence of run calls.
C7_RunOnceAtMostOnce ==
    \A i \in Slots : components[i].decl.mode = "RunOnce" => components[i].invoked <= 1

\* C7 witness: a RunOnce component that reported ran was run again, and the
\* program panicked without a second invocation
C7_Witness ==
    \E i \in Slots :
        /\ components[i].decl.mode = "RunOnce"
        /\ components[i].outcome = "Ok(true)"
        /\ components[i].invoked = 1
        /\ panic.kind \in {"input is None during run", "unwrap on None"}
        /\ panic.component = components[i].decl.name


\* The leaf kinds a parameter declares, in declaration order
RECURSIVE Leaves(_)
RECURSIVE LeavesOfAll(_)
LeavesOfAll(ps) == IF ps = <<>> THEN <<>> ELSE Leaves(Head(ps)) \o LeavesOfAll(Tail(ps))
Leaves(p) ==
    IF p.kind = "Tuple" THEN LeavesOfAll(p.sub)
    ELSE IF p.kind = "Option" THEN Leaves(p.sub[1])
    ELSE <<p>>

Positions(d, p) == {k \in 1..Len(Leaves(d.params)) : Leaves(d.params)[k] = p}
DeclaresTwoMut(d, t) == Cardinality(Positions(d, ConfigMut(t))) >= 2
DeclaresMutAndRead(d, t) == Positions(d, ConfigMut(t)) # {} /\ Positions(d, Config(t)) # {}
Min(S) == CHOOSE x \in S : \A y \in S : x <= y

RunCall(i) == Run(i) /\ Initialized(i)
AllValid(i) == Valid(components[i].decl.params, components[i].param_state, storage)

\* C4: a grouping is valid only when all its members are valid, as the
\* parameter list and as one parameter nested in that list; and a run
\* reports did-not-run, without extracting or invoking, whenever a member of
\* one of its groupings is invalid.
C4_GroupingValidOnlyIfMembersValid ==
    [][\A i \in Slots :
          LET c == components[i]
          IN RunCall(i)
             => /\ \A k \in 1..Len(c.decl.params.sub) :
                      c.decl.params.sub[k].kind = "Tuple"
                      /\ validate(c.decl.params.sub[k], c.param_state.sub[k], storage)
                      => Valid(c.decl.params.sub[k], c.param_state.sub[k], storage)
                /\ try_validate(c.decl.params, c.param_state, storage) = <<>> => AllValid(i)
                /\ ~AllValid(i)
                   => /\ components'[i].outcome = "Ok(false)"
                      /\ components'[i].invoked = c.invoked
                      /\ components'[i].items = c.items]_vars

\* C5: a run with an invalid declared parameter returns Ok(false), does not
\* invoke the callable, and records the name of the first parameter in
\* declaration order that failed validation, a grouping member by its own
\* name.
C5_FirstFailedParamRecorded ==
    [][\A i \in Slots :
          LET c == components[i]
          IN RunCall(i) /\ ~AllValid(i)
             => /\ components'[i].outcome = "Ok(false)"
                /\ components'[i].invoked = c.invoked
                /\ panic' = NoPanic
                /\ components'[i].metadata.failed_param
                      = <<type_name(FirstInvalid(c.decl.params, c.param_state, storage))>>]_vars

\* C6: a run ends in exactly one of three outcomes: Ok(false) iff some
\* parameter failed validation; otherwise the callable is invoked and its
\* own result is the outcome, Ok(true) or Err(e).
C6_RunOutcomeTrichotomy ==
    [][\A i \in Slots :
          LET c == components[i]
          IN RunCall(i)
             => /\ panic' = NoPanic
                /\ ~AllValid(i) => /\ components'[i].outcome = "Ok(false)"
                                   /\ components'[i].invoked = c.invoked
                /\ AllValid(i) => /\ components'[i].outcome \in {"Ok(true)", "Err"}
                                  /\ components'[i].invoked = c.invoked + 1]_vars


\* C8: Option<P> never fails validation, and at the invocation it yields
\* None exactly when P itself would fail validation, otherwise Some of P's
\* extracted value; P may be a grouping.
C8_OptionNoneIffInvalid ==
    [][\A i \in Slots :
          LET c == components[i]
          IN RunCall(i)
             => \A k \in 1..Len(c.decl.params.sub) :
                   LET o == c.decl.params.sub[k]
                       P == o.sub[1]
                       s == c.param_state.sub[k]
                       item == components'[i].items.sub[k]
                   IN o.kind = "Option"
                      => /\ validate(o, s, storage)
                         /\ components'[i].invoked = c.invoked + 1
                            => /\ item.kind = "None" <=> ~Valid(P, s, storage)
                               /\ item.kind = "Some"
                                  => item.sub[1] = get_param(P, s, storage,
                                         Ctx({}, {}, FALSE, NoPanic, NoItem)).item]_vars

LastAddConfig(q, t) ==
    LET K == {k \in 1..Len(q) : q[k] = AddConfigCmd(t, q[k].v)}
    IN q[CHOOSE k \in K : \A j \in K : j <= k]
QueuesConfig(q, t) == \E k \in 1..Len(q) : q[k].op = "add_config" /\ q[k].t = t
QueuesService(q, s) == \E k \in 1..Len(q) : q[k] = AddServiceCmd(s)

\* C9: what a callable requests through Commands is not visible in storage
\* when its run returns: the step that invokes it adds no config slot,
\* changes no slot the component holds no ConfigMut of, and publishes no
\* service; after
\* apply_deferred every queued config and service is present and the queue
\* is empty.
C9_DeferredInvisibleUntilApplied ==
    [][/\ \A i \in Slots :
             components'[i].invoked = components[i].invoked + 1
             => /\ Len(storage'.configs) = Len(storage.configs)
                /\ \A id \in ConfigIds :
                      id \notin components[i].metadata.writes
                      => storage'.configs[id] = storage.configs[id]
                /\ storage'.services = storage.services
                /\ storage'.service_ids = storage.service_ids
       /\ ApplyDeferred
          => /\ \A t \in ConfigTypes :
                   QueuesConfig(storage.deferred, t) => ConfigIdOf(storage', t) # 0
             /\ \A s \in ServiceTypes :
                   QueuesService(storage.deferred, s)
                   => Storage_has_service(storage', ServiceIdOf(storage', s))
             /\ storage'.deferred = <<>>]_vars

\* C9 witness: apply_deferred has just run a queue that added a config type
\* and published a service, both now present
C9_Witness ==
    /\ QueuesConfig(applied, "u32") /\ QueuesService(applied, "TestService")
    /\ storage.deferred = <<>>
    /\ ConfigIdOf(storage, "u32") # 0
    /\ Storage_has_service(storage, ServiceIdOf(storage, "TestService"))

\* C10: the queue holds the commands requested and not yet executed, in the
\* order they were requested; apply_deferred executes exactly those, each
\* once, in that order, and empties the queue; no other step executes a
\* command; of several add_config of one type the last one sets the value.
C10_DeferredOnceInOrder ==
    [][/\ storage'.deferred = requested'
       /\ IF ApplyDeferred
          THEN /\ applied' = requested
               /\ storage'.deferred = <<>>
               /\ \A t \in ConfigTypes :
                     QueuesConfig(requested, t)
                     => storage'.configs[ConfigIdOf(storage', t)]
                           = ConfigRaw_new(t, TRUE, LastAddConfig(requested, t).v)
          ELSE applied' = <<>>]_vars

\* C10 witness: two add_config of one type were executed in order, and the
\* slot holds the value of the second
C10_Witness ==
    /\ applied = <<AddConfigCmd("u32", 1), AddConfigCmd("u32", 0)>>
    /\ storage.deferred = <<>>
    /\ storage.configs[ConfigIdOf(storage, "u32")].value = 0


(* ------------------- configuration handed from A to B ------------------ *)
NoCtx == Ctx({}, {}, FALSE, NoPanic, NoItem)
\* what the callable of component i would be handed in storage st
Extracted(i, st) == get_param(components[i].decl.params, components[i].param_state, st, NoCtx).item
Validates(i, st) == try_validate(components[i].decl.params, components[i].param_state, st) = <<>>
U32 == ConfigIdOf(storage, "u32")

ServiceIds == 1..Len(storage.service_ids)
Published(st, s) == ServiceIdOf(st, s) # 0 /\ ServiceIdOf(st, s) \in st.services
ServiceValidIffPublished ==
    \A id \in ServiceIds :
        LET s == storage.service_ids[id]
        IN /\ id = ServiceIdOf(storage, s)
           /\ try_validate(Service(s), IdState(id), storage) = <<>> <=> Published(storage, s)
           /\ ~Published(storage, s)
              => try_validate(Service(s), IdState(id), storage) = <<type_name(Service(s))>>

\* C12: Service<S> fails validation in every state where S is not yet
\* published and validates in every state where it is; once published S
\* stays published, so validity never becomes false again; a component
\* waiting on S reports did-not-run before the publication and invokes its
\* callable after it, whether it was initialized before or after.
C12_ServiceValidOncePublished ==
    [][/\ ServiceValidIffPublished /\ ServiceValidIffPublished'
       /\ \A s \in ServiceTypes : Published(storage, s) => Published(storage', s)
       /\ \A i \in Slots :
             LET c == components[i]
             IN c.decl = D_Consumer /\ Initialized(i) /\ components'[i] # c
                => IF Published(storage, "TestService")
                   THEN /\ components'[i].invoked = c.invoked + 1
                        /\ components'[i].items.sub[1] = Item("Service", c.param_state.sub[1].id, 0, <<>>)
                   ELSE /\ components'[i].invoked = c.invoked
                        /\ components'[i].outcome = "Ok(false)"
                        /\ components'[i].metadata.failed_param
                              = <<type_name(Service("TestService"))>>]_vars

\* C12 witness: a consumer that reported did-not-run on Service<S> has been
\* invoked after S was published
C12_Witness ==
    \E i \in Slots :
        /\ components[i].decl = D_Consumer
        /\ components[i].metadata.failed_param = <<type_name(Service("TestService"))>>
        /\ components[i].outcome = "Ok(true)"
        /\ Published(storage, "TestService")


(* --------------------------- the lock discipline ----------------------- *)
\* the slot was unlocked by the initialize of a component declaring ConfigMut
HasBeenUnlocked(id) == \E i \in Slots : id \in components[i].metadata.writes

\* C13: a config slot that is locked after having been unlocked stays
\* locked in every later state, whatever operation follows.
C13_LockedStaysLocked ==
    [][\A id \in ConfigIds :
          storage.configs[id].locked /\ HasBeenUnlocked(id)
          => storage'.configs[id].locked]_vars


\* the leaf kinds a parameter requires, in declaration order: those under
\* an Option are not required
RECURSIVE RequiredLeaves(_)
RECURSIVE RequiredLeavesOfAll(_)
RequiredLeavesOfAll(ps) ==
    IF ps = <<>> THEN <<>> ELSE RequiredLeaves(Head(ps)) \o RequiredLeavesOfAll(Tail(ps))
RequiredLeaves(p) ==
    IF p.kind = "Tuple" THEN RequiredLeavesOfAll(p.sub)
    ELSE IF p.kind = "Option" THEN <<>>
    ELSE <<p>>
Declares(d, p) == \E k \in 1..Len(Leaves(d.params)) : Leaves(d.params)[k] = p
Requires(d, p) == \E k \in 1..Len(RequiredLeaves(d.params)) : RequiredLeaves(d.params)[k] = p
Unlocked(st, t) == ConfigIdOf(st, t) # 0 /\ ~st.configs[ConfigIdOf(st, t)].locked

\* C14: the initialize of a component that declares ConfigMut<T> leaves
\* slot T unlocked; and while the slot is unlocked, every run of a component
\* that declares a non-optional Config<T> reports did-not-run.
C14_MutableClaimExcludesReaders ==
    [][\A t \in ConfigTypes :
          /\ \A i \in Slots :
                Initialize(i) /\ Declares(components[i].decl, ConfigMut(t))
                => Unlocked(storage', t)
          /\ \A j \in Slots :
                /\ Initialized(j) /\ Requires(components[j].decl, Config(t))
                /\ Unlocked(storage, t) /\ HasBeenUnlocked(ConfigIdOf(storage, t))
                /\ components'[j] # components[j]
                => /\ components'[j].outcome = "Ok(false)"
                   /\ components'[j].invoked = components[j].invoked]_vars


\* C15: the lock sweep leaves every existing config slot locked, so that
\* every Config<T> validates; and once a sweep has locked a slot, a component
\* with a non-optional ConfigMut<T> that has not run reports did-not-run on
\* every later run, recording ConfigMut<T>, and its callable is never
\* invoked.
C15_SweepEndsMutableAccess ==
    [][/\ LockConfigs
          => \A id \in 1..Len(storage'.configs) :
                /\ storage'.configs[id].locked
                /\ try_validate(Config(storage'.configs[id].type), IdState(id), storage') = <<>>
       /\ \A i \in Slots, t \in ConfigTypes :
             /\ swept /\ Initialized(i) /\ components[i].invoked = 0
             /\ Requires(components[i].decl, ConfigMut(t))
             /\ components'[i] # components[i]
             => /\ components'[i].outcome = "Ok(false)"
                /\ components'[i].invoked = 0
                /\ components'[i].metadata.failed_param = <<type_name(ConfigMut(t))>>]_vars


(* ------------------------- whole-storage access ------------------------ *)
Before(d, p, q) ==
    \E j, k \in 1..Len(Leaves(d.params)) :
        j < k /\ Leaves(d.params)[j] = p /\ Leaves(d.params)[k] = q
\* &mut Storage with a per-slot access in either order, or &Storage followed
\* by ConfigMut<T>
WholeStorageConflict(d) ==
    \E t \in ConfigTypes :
        \/ Declares(d, Storage_mut) /\ (Declares(d, Config(t)) \/ Declares(d, ConfigMut(t)))
        \/ Before(d, Storage_ref, ConfigMut(t))

StorageReadThenConfig(d) == \E t \in ConfigTypes : Before(d, Storage_ref, Config(t))

CommandsCount(d) == Cardinality(Positions(d, Commands))
\* a conflict among the per-slot and whole-storage accesses of one component
ConfigConflict(d) ==
    \/ WholeStorageConflict(d)
    \/ \E t \in ConfigTypes : DeclaresTwoMut(d, t) \/ DeclaresMutAndRead(d, t)

OneCommandsAmongOthers(d) ==
    /\ CommandsCount(d) = 1
    /\ Len(Leaves(d.params)) >= 2
    /\ ~ConfigConflict(d)

\* C19: a single Commands parameter declared in any position among
\* Config<T>, ConfigMut<U> (T different from U) and Service parameters does
\* not make initialize abort, in any build; Commands validates in every
\* storage, and no run of such a component records Commands as the parameter
\* that failed validation.
C19_SingleCommandsNeverConflicts ==
    [][\A i \in Slots :
          LET d == components[i].decl
          IN OneCommandsAmongOthers(d)
             => /\ Initialize(i)
                   => /\ panic' = NoPanic
                      /\ Initialized(i)'
                      /\ has_deferred(components'[i].metadata)
                /\ validate(Commands, NoState, storage')
                /\ components'[i].metadata.failed_param # <<type_name(Commands)>>
                /\ panic'.kind # "conflict"]_vars

\* C19 witness: the component with Commands declared between Config<i32>
\* and ConfigMut<u32> has been initialized and invoked, and has queued a
\* command through its handle
C19_Witness ==
    \E i \in Slots :
        /\ components[i].decl \in {D_CommandsFirst, D_CommandsMiddle, D_CommandsLast}
        /\ Positions(components[i].decl, Commands) = {2}
        /\ Initialized(i)
        /\ components[i].invoked = 1
        /\ Len(storage.deferred) > 0


(* ------------------------- first reference ----------------------------- *)
\* Config<T> registered against the slot of T in storage st is available
\* and hands out v
ConfigYields(st, t, v) ==
    LET id == ConfigIdOf(st, t)
    IN /\ id # 0
       /\ Storage_get_raw_config(st, id).locked
       /\ try_validate(Config(t), IdState(id), st) = <<>>
       /\ get_param(Config(t), IdState(id), st, NoCtx).item.value = v

\* C20: when storage has no slot of T, the initialize of a component that
\* declares Config<T> (and no ConfigMut<T>) creates the slot locked with the
\* default value, and Config<T> validates and yields the default; when the
\* slot is first created by a queued add_config(v), it is created locked,
\* Config<T> validates and yields v, and a later registration of Config<T>
\* leaves the slot as it is.
C20_FirstReferenceCreatesLockedSlot ==
    [][\A t \in ConfigTypes :
          /\ \A i \in Slots :
                LET d == components[i].decl
                IN Initialize(i) /\ panic' = NoPanic
                   /\ Declares(d, Config(t)) /\ ~Declares(d, ConfigMut(t))
                   => /\ ConfigIdOf(storage, t) = 0
                         => ConfigYields(storage', t, DefaultValue)
                      /\ ConfigIdOf(storage, t) # 0
                         => /\ ConfigIdOf(storage', t) = ConfigIdOf(storage, t)
                            /\ storage'.configs[ConfigIdOf(storage, t)]
                                 = storage.configs[ConfigIdOf(storage, t)]
          /\ ApplyDeferred /\ ConfigIdOf(storage, t) = 0 /\ QueuesConfig(storage.deferred, t)
             => ConfigYields(storage', t, LastAddConfig(storage.deferred, t).v)]_vars

\* C20 witness: the slot of u32 was created by a queued add_config of a
\* value other than the default, before the component that declares
\* Config<u32> is initialized, and Config<u32> yields that value
C20_Witness ==
    \E i \in Slots, v \in Values \ {DefaultValue} :
        /\ components[i].decl = D_Reader
        /\ components[i].status = "constructed"
        /\ applied # <<>>
        /\ applied[Len(applied)] = AddConfigCmd("u32", v)
        /\ ConfigYields(storage, "u32", v)


(* --------------------------- slot identity ----------------------------- *)
\* the states of the leaves of a parameter, in the order of Leaves
RECURSIVE LeafStates(_, _)
RECURSIVE LeafStatesOfAll(_, _)
LeafStatesOfAll(ps, states) ==
    IF ps = <<>> THEN <<>>
    ELSE LeafStates(Head(ps), Head(states)) \o LeafStatesOfAll(Tail(ps), Tail(states))
LeafStates(p, state) ==
    IF p.kind = "Tuple" THEN LeafStatesOfAll(p.sub, state.sub)
    ELSE IF p.kind = "Option" THEN LeafStates(p.sub[1], state)
    ELSE <<state>>

\* the identities component c holds for configuration type t
HeldIds(c, t) ==
    {LeafStates(c.decl.params, c.param_state)[k].id :
        k \in Positions(c.decl, Config(t)) \cup Positions(c.decl, ConfigMut(t))}

OneSlotPerType(st) ==
    \A a, b \in 1..Len(st.configs) : st.configs[a].type = st.configs[b].type => a = b

\* C21: storage holds at most one slot per configuration type; the identity
\* and the type of a slot never change; and every identity an initialized
\* component holds for T, through Config<T> or ConfigMut<T>, is the identity
\* of the one slot of T, so that different types have different identities
\* and a reader and a writer of T hold the same slot.
C21_OneStableSlotPerType ==
    /\ [](/\ OneSlotPerType(storage)
          /\ \A i \in Slots, t \in ConfigTypes :
                components[i].status = "initialized"
                => HeldIds(components[i], t) \subseteq {ConfigIdOf(storage, t)} \ {0})
    /\ [][/\ \A id \in ConfigIds :
                /\ id <= Len(storage'.configs)
                /\ storage'.configs[id].type = storage.configs[id].type
          /\ \A i \in Slots :
                components[i].status = "initialized"
                => /\ components'[i].status = "initialized"
                   /\ components'[i].decl = components[i].decl
                   /\ components'[i].param_state = components[i].param_state]_vars

\* C21 witness: a writer of u32 and a reader of u32 and i32 are initialized;
\* they hold the same identity for u32 and the reader another one for i32
C21_Witness ==
    \E a, b \in Slots :
        /\ components[a].decl = D_Writer /\ components[b].decl = D_Nested
        /\ Initialized(a) /\ Initialized(b)
        /\ Len(storage.configs) = 2
        /\ HeldIds(components[a], "u32") = HeldIds(components[b], "u32")
        /\ HeldIds(components[b], "u32") # {}
        /\ HeldIds(components[b], "i32") # {}
        /\ HeldIds(components[b], "u32") # HeldIds(components[b], "i32")


(* ---------------------------- Service handle --------------------------- *)
Initialised(h) == handles[h].live /\ handles[h].value # <<>>
NotInitialisedMsg == Panic("expect", <<"Provided Service was not initialized!">>, "-", "-")
AlreadyInitialisedMsg == Panic("expect", <<"Service was already initialized!">>, "-", "-")
DerefUninitMsg == Panic("unreachable", <<"Service should be initialized first!">>, "-", "-")

\* C22: dereferencing a handle that was never initialized aborts, and
\* dereferencing an initialized one yields its service; replace(target,
\* source) aborts, changing no handle, when source is uninitialized or
\* target is already initialized, and otherwise makes target refer to the
\* service of source, leaves source as it was and dereferenceable; and an
\* initialized handle never changes the service it refers to.
C22_ServiceHandleSetOnce ==
    [][/\ call'.fn = "deref"
          => LET h == call'.args[1]
             IN IF Initialised(h)
                THEN panic' = NoPanic /\ call'.result = handles[h].value
                ELSE panic' = DerefUninitMsg
       /\ call'.fn = "replace"
          => LET target == call'.args[1]
                 source == call'.args[2]
             IN IF ~Initialised(source)
                THEN panic' = NotInitialisedMsg /\ handles' = handles
                ELSE IF Initialised(target)
                THEN panic' = AlreadyInitialisedMsg /\ handles' = handles
                ELSE /\ panic' = NoPanic
                     /\ handles'[target].value = handles[source].value
                     /\ handles'[source] = handles[source]
                     /\ Service_deref(handles'[source]).panic = NoPanic
                     /\ Service_deref(handles'[target]).target = Service_deref(handles[source]).target
       /\ \A h \in Handles : Initialised(h) => handles'[h] = handles[h]]_vars

\* C22 witness: replace has made an uninitialized handle refer to the
\* service of another handle, while a third handle holds another service
C22_Witness ==
    /\ call.fn = "replace"
    /\ panic = NoPanic
    /\ handles[call.args[1]].value = handles[call.args[2]].value
    /\ handles[call.args[1]].value # <<>>
    /\ \E h \in Handles : Initialised(h) /\ handles[h].value # handles[call.args[1]].value


(* ------------------------------ alignment ------------------------------ *)
IsOk(r, v) == r.ok /\ r.v = v
IsErr(r, e) == ~r.ok /\ r.v = e
IsPowerOfTwo(x) == \E k \in 0..(Width - 1) : x = 2^k
Multiples(align) == {m \in 0..(2 * T_max + 1) : m % align = 0}
\* the smallest multiple of align that is at least addr
Ceil(addr, align) == CHOOSE m \in Multiples(align) : m >= addr /\ \A n \in Multiples(align) : n >= addr => m <= n
\* the largest multiple of align that is at most addr
Floor(addr, align) == CHOOSE m \in Multiples(align) : m <= addr /\ \A n \in Multiples(align) : n <= addr => n <= m

\* C23: align_up(addr, align) is Err(InvalidParameter) when align is not a
\* power of two (0 included); otherwise it is addr when addr is a multiple
\* of align, else the smallest multiple of align greater than addr, and
\* Err(InvalidParameter), never a wrapped value, when that multiple does not
\* fit in the type.
C23_AlignUp ==
    call.fn = "align_up"
    => LET addr == call.args[1]
           align == call.args[2]
       IN IF ~IsPowerOfTwo(align) THEN IsErr(call.result, "InvalidParameter")
          ELSE IF addr % align = 0 THEN IsOk(call.result, addr)
          ELSE IF Ceil(addr, align) > T_max THEN IsErr(call.result, "InvalidParameter")
          ELSE /\ IsOk(call.result, Ceil(addr, align))
               /\ call.result.v > addr

\* C23 witness: an unaligned address whose next multiple does not fit
C23_Witness ==
    /\ call.fn = "align_up"
    /\ IsPowerOfTwo(call.args[2])
    /\ call.args[1] % call.args[2] # 0
    /\ Ceil(call.args[1], call.args[2]) > T_max
    /\ ~call.result.ok


\* C24: align_down(addr, align) is Err(InvalidParameter) when align is not
\* a power of two (0 included); otherwise it is the largest multiple of
\* align that is at most addr (result <= addr, result mod align = 0,
\* addr - result < align), and aligning the result down again returns it.
C24_AlignDown ==
    call.fn = "align_down"
    => LET addr == call.args[1]
           align == call.args[2]
       IN IF ~IsPowerOfTwo(align) THEN IsErr(call.result, "InvalidParameter")
          ELSE /\ IsOk(call.result, Floor(addr, align))
               /\ call.result.v <= addr
               /\ call.result.v % align = 0
               /\ addr - call.result.v < align
               /\ IsOk(align_down(call.result.v, align), call.result.v)

\* C24 witness: an unaligned address aligned down to a multiple other than 0
C24_Witness ==
    /\ call.fn = "align_down"
    /\ call.result.ok
    /\ call.result.v # call.args[1]
    /\ call.result.v > 0


\* C25: align_range(base, length, align) is an error only when align is not
\* a power of two; for every power-of-two align and every base and length
\* of the type it returns (aligned_base, aligned_length) with aligned_base
\* the base aligned down and aligned_base + aligned_length the end
\* base + length aligned up.
C25_AlignRange ==
    call.fn = "align_range"
    => LET base == call.args[1]
           length == call.args[2]
           align == call.args[3]
       IN IF ~IsPowerOfTwo(align)
          THEN panic = NoPanic /\ IsErr(call.result, "InvalidParameter")
          ELSE /\ panic = NoPanic
               /\ call.result.ok
               /\ call.result.v[1] = Floor(base, align)
               /\ call.result.v[1] + call.result.v[2] = Ceil(base + length, align)


(* ----------------------------- device paths ---------------------------- *)
IsPrefix(na, nb) == Len(na) <= Len(nb) /\ SubSeq(nb, 1, Len(na)) = na
RECURSIVE SizeOfNodes(_)
SizeOfNodes(ns) == IF ns = <<>> THEN 0 ELSE HeaderSize + Len(Head(ns).data) + SizeOfNodes(Tail(ns))

\* C26: when the nodes of a are a prefix of, or the same as, the nodes of
\* b, remaining_device_path(a, b) is Some of the position in b right after
\* the nodes of a and of the number of nodes of a, the end node not
\* counted; when a node of a differs from the node of b at its place, or b
\* ends before a does, it is None.
C26_RemainingDevicePath ==
    call.fn = "remaining_device_path"
    => IF IsPrefix(paths.a.nodes, paths.b.nodes)
       THEN call.result = <<SizeOfNodes(paths.a.nodes), Len(paths.a.nodes)>>
       ELSE call.result = <<>>

\* C26 witness: a has nodes and b has more nodes after them
C26_Witness ==
    /\ call.fn = "remaining_device_path"
    /\ Len(paths.a.nodes) > 0
    /\ Len(paths.b.nodes) > Len(paths.a.nodes)
    /\ call.result # <<>>
    /\ call.result[2] = Len(paths.a.nodes)
    /\ read(paths.b.bytes, call.result[1]) = read(NodeBytes(paths.b.nodes[Len(paths.a.nodes) + 1]), 0)


\* C27: device_path_node_count of a null pointer is Err(INVALID_PARAMETER);
\* of a well-formed device path it is the number of its nodes and the sum
\* of their length fields, both with the terminating end node.
C27_NodeCount ==
    call.fn = "device_path_node_count"
    => IF paths.a.null
       THEN panic = NoPanic /\ IsErr(call.result, "INVALID_PARAMETER")
       ELSE /\ panic = NoPanic
            /\ IsOk(call.result, <<Len(paths.a.nodes) + 1, SizeOfNodes(paths.a.nodes) + HeaderSize>>)
            /\ call.result.v[2] = Len(paths.a.bytes)

\* what next returns for a node: Some of its header and payload
Yielded(n) ==
    <<[header |-> read(NodeBytes(n), 0), data |-> n.data]>>

\* C28: the k-th call of next on a walker over a device path returns the
\* k-th node of the path with its type, subtype and payload (the bytes
\* after the 4-byte header, length field minus 4); the call after the last
\* node returns the end-of-entire-path node; every later call returns None.
C28_WalkerYieldsNodesThenNone ==
    walker.live
    => LET ns == paths.a.nodes
       IN /\ \A k \in 1..Len(walker.returned) :
                LET item == walker.returned[k]
                IN IF k <= Len(ns)
                   THEN /\ item = Yielded(ns[k])
                        /\ item[1].header.type = ns[k].type
                        /\ item[1].header.sub_type = ns[k].sub_type
                        /\ Len(item[1].data) = u16_from_le_bytes(item[1].header.length) - HeaderSize
                   ELSE IF k = Len(ns) + 1
                   THEN item = Yielded(EndEntire) /\ is_device_path_end(item[1].header)
                   ELSE item = <<>>
          /\ walker.next_node = <<>> <=> Len(walker.returned) > Len(ns)

\* C28 witness: a walker over a path of two nodes, one of them the end of
\* an instance, has returned them, the end-of-entire-path node and None
\* twice
C28_Witness ==
    /\ walker.live
    /\ Len(paths.a.nodes) = 2
    /\ paths.a.nodes[1].type = TYPE_END
    /\ paths.a.nodes[2].data # <<>>
    /\ Len(walker.returned) = 5
    /\ walker.returned[3] = Yielded(EndEntire)
    /\ walker.returned[4] = <<>>
    /\ walker.returned[5] = <<>>


(* ----------------------- extraction after validation ------------------- *)
\* every parameter an item was extracted for is valid in storage st; the
\* parameter of an Option that yielded None was not extracted
RECURSIVE ExtractedValid(_, _, _, _)
ExtractedValid(p, state, item, st) ==
    IF p.kind = "Tuple"
    THEN \A k \in 1..Len(p.sub) : ExtractedValid(p.sub[k], state.sub[k], item.sub[k], st)
    ELSE IF p.kind = "Option"
    THEN item.kind = "None" \/ ExtractedValid(p.sub[1], state, item.sub[1], st)
    ELSE Valid(p, state, st)

\* C29: in a run, every parameter that is extracted, members of groupings
\* and the parameter of an Option included, is valid in the storage the run
\* started from, and no run aborts in the extraction of a Service that is
\* not published.
C29_ExtractionOnlyAfterValidation ==
    [][\A i \in Slots :
          LET c == components[i]
          IN Initialized(i)
             => /\ components'[i].invoked = c.invoked + 1
                   => ExtractedValid(c.decl.params, c.param_state, components'[i].items, storage)
                /\ panic'.kind # "Could not find Service value"]_vars


(* ------------------------------ did-not-run ---------------------------- *)
\* C30: a run that reports did-not-run changes nothing but the recorded
\* name of the failed parameter (and the outcome it returns): storage, with
\* its config values, lock flags, published services and deferred queue,
\* the component's parameter state, its access footprint and its one-shot
\* input, every other component and the absence of a panic are unchanged.
C30_DidNotRunChangesNothing ==
    [][\A i \in Slots :
          LET c == components[i]
              bad == try_validate(c.decl.params, c.param_state, storage)
          IN /\ Initialized(i) /\ components'[i] # c
             /\ components'[i].outcome = "Ok(false)" /\ components'[i].invoked = c.invoked
             => /\ bad # <<>>
                /\ storage' = storage
                /\ panic' = panic
                /\ components'[i] = [c EXCEPT !.outcome = "Ok(false)",
                                              !.metadata.failed_param = <<bad[1]>>]
                /\ components'[i].param_state = c.param_state
                /\ components'[i].input = c.input
                /\ components'[i].metadata.reads = c.metadata.reads
                /\ components'[i].metadata.writes = c.metadata.writes
                /\ components'[i].metadata.deferred = c.metadata.deferred
                /\ \A j \in Slots \ {i} : components'[j] = components[j]]_vars

\* C30 witness: a component whose service is not published has reported
\* did-not-run with commands waiting in the deferred queue, and still holds
\* its input
C30_Witness ==
    \E i \in Slots :
        /\ components[i].decl = D_Consumer
        /\ components[i].outcome = "Ok(false)"
        /\ components[i].metadata.failed_param = <<type_name(Service("TestService"))>>
        /\ components[i].input
        /\ components[i].invoked = 0
        /\ storage.deferred # <<>>


(* ------------------------- eligibility after did-not-run ---------------- *)
\* the last run call of component i reported did-not-run and its input is
\* still there
WaitingAfterDidNotRun(i) ==
    /\ Initialized(i)
    /\ components[i].outcome = "Ok(false)"
    /\ components[i].input

\* the run call of component i extracts the values, invokes the callable
\* once and reports its outcome
RunsCallableOnce(i) ==
    LET c == components[i]
    IN /\ panic' = NoPanic
       /\ components'[i].invoked = c.invoked + 1
       /\ components'[i].outcome \in {"Ok(true)", "Err"}
       /\ components'[i].items
             = get_param(c.decl.params, c.param_state, storage, Ctx({}, {}, FALSE, NoPanic, NoItem)).item

BorrowPanics == {"BorrowError", "BorrowMutError"}

\* no two parameters of component i hold one config slot with one of them
\* holding it exclusively
NoAliasedExclusive(i) ==
    LET leaves == Leaves(components[i].decl.params)
        states == LeafStates(components[i].decl.params, components[i].param_state)
    IN \A a, b \in 1..Len(leaves) :
          /\ a # b
          /\ leaves[a].kind = "ConfigMut"
          /\ leaves[b].kind \in {"Config", "ConfigMut"}
          => states[a].id # states[b].id

C33_LockedValueFrozen ==
    [][\A id \in ConfigIds :
          storage.configs[id].locked
          => storage'.configs[id].value = storage.configs[id].value]_vars


(* ------------------------- Option<P> at initialize ---------------------- *)
\* the parameter with every Option<P> replaced by P
RECURSIVE Unwrapped(_)
Unwrapped(p) ==
    IF p.kind = "Option" THEN Unwrapped(p.sub[1])
    ELSE IF p.kind = "Tuple" THEN Tuple([k \in 1..Len(p.sub) |-> Unwrapped(p.sub[k])])
    ELSE p

\* initialize of component i does to storage and to the access record, and
\* aborts, exactly as initialize with the parameters unwrapped would:
\* Option<ConfigMut<T>> records a write of T and leaves slot T unlocked,
\* Option<Config<T>> records a read of T
InitializesAsUnwrapped(i) ==
    LET c == components[i]
        r == init_state(Unwrapped(c.decl.params), storage, c.metadata)
    IN /\ storage' = r.st
       /\ panic' = r.panic
       /\ r.panic = NoPanic
          => /\ Initialized(i)'
             /\ components'[i].metadata = r.meta
             /\ components'[i].param_state = r.state
       /\ \A t \in ConfigTypes :
             /\ Positions(c.decl, ConfigMut(t)) # {} /\ panic' = NoPanic
                => /\ ConfigIdOf(storage', t) \in components'[i].metadata.writes
                   /\ ~storage'.configs[ConfigIdOf(storage', t)].locked
             /\ Positions(c.decl, Config(t)) # {} /\ panic' = NoPanic
                => ConfigIdOf(storage', t) \in components'[i].metadata.reads

OptionConflictPanic(c) ==
    Panic("conflict", <<type_name(Config("u32"))>>, "ConfigMut", c.decl.name)

RunManyStepRunsAgain(i) ==
    /\ components'[i] # components[i] => RunsCallableOnce(i) /\ components'[i].input
    /\ panic' # NoPanic => ~Run(i)

InputGonePanics == {"input is None during run", "unwrap on None"}

\* C36: the input of a RunOnce component is present exactly as long as its
\* callable has not been invoked: after construction, initialize and any
\* did-not-run attempt it is there, after the run that invoked the callable
\* it is gone whatever the callable returned; and a later run whose
\* parameters validate aborts without a second invocation.
C36_InputConsumedWhenInvoked ==
    /\ [](\A i \in Slots :
            components[i].decl.mode = "RunOnce"
            => /\ components[i].input <=> components[i].invoked = 0
               /\ components[i].outcome \in {"Ok(true)", "Err"} => ~components[i].input)
    /\ [][\A i \in Slots :
            /\ components[i].decl.mode = "RunOnce"
            /\ Initialized(i)
            /\ ~components[i].input
            /\ try_validate(components[i].decl.params, components[i].param_state, storage) = <<>>
            /\ Run(i)
            => /\ panic'.kind \in InputGonePanics
               /\ panic'.component = components[i].decl.name
               /\ components' = components
               /\ storage' = storage]_vars

\* C36 witness: a RunOnce component whose first attempt reported did-not-run
\* ran once, its callable returned an error, and the next run aborted on
\* the missing input
C36_Witness ==
    \E i \in Slots :
        /\ components[i].decl.mode = "RunOnce"
        /\ components[i].metadata.failed_param # <<>>
        /\ components[i].outcome = "Err"
        /\ components[i].invoked = 1
        /\ ~components[i].input
        /\ panic.kind \in InputGonePanics
        /\ panic.component = components[i].decl.name


(* ----------------------- the failed-parameter name ---------------------- *)
\* C37: the failed-parameter name of a component is absent until its first
\* did-not-run attempt; it changes only in a did-not-run attempt, which sets
\* it to the name of the first parameter, in declaration order, that is
\* invalid in that attempt; a run that invokes the callable leaves it as it
\* was.
C37_FailedParamSetOnlyByDidNotRun ==
    [][\A i \in Slots :
          LET c == components[i]
          IN /\ c.status = "constructed" => c.metadata.failed_param = <<>>
             /\ components'[i].metadata.failed_param # c.metadata.failed_param
                => /\ components'[i].outcome = "Ok(false)"
                   /\ components'[i].invoked = c.invoked
             /\ RunCall(i) /\ panic' = NoPanic /\ components'[i].outcome = "Ok(false)"
                => components'[i].metadata.failed_param
                      = <<type_name(FirstInvalid(c.decl.params, c.param_state, storage))>>
             /\ components'[i].invoked = c.invoked + 1
                => components'[i].metadata.failed_param = c.metadata.failed_param]_vars


(* ------------------- walker and node count on one path ------------------ *)
\* the sum of the length fields of the nodes a walker returned
RECURSIVE SumOfLengths(_)
SumOfLengths(items) ==
    IF items = <<>> THEN 0
    ELSE (IF Head(items) = <<>> THEN 0 ELSE u16_from_le_bytes(Head(items)[1].header.length))
         + SumOfLengths(Tail(items))

\* C38: when a walker over a well-formed device path has returned its last
\* node, the number of nodes it returned, the end node with them, is the
\* node count device_path_node_count returns for the path, and the sum of
\* their lengths is the byte size it returns.
C38_WalkerAgreesWithNodeCount ==
    walker.live /\ walker.next_node = <<>>
    => LET yielded == SelectSeq(walker.returned, LAMBDA item : item # <<>>)
           r == device_path_node_count(paths.a)
       IN /\ r.panic = NoPanic
          /\ IsOk(r.result, <<Len(yielded), SumOfLengths(yielded)>>)

====
